---- MODULE Spec2Model ----
(***************************************************************************)
(* march: a first-order Markov chain over a petgraph Graph<Item<T>, u32>.  *)
(* The model follows src/src/lib.rs: Chain (new, bump_edge, ensure_node,   *)
(* feed, generate, generate_iter) and RandomWalk (next).                   *)
(*                                                                         *)
(* Node ids are positions in the node arena; petgraph numbers them from 0, *)
(* the model from 1, so start = 1 and end = 2.                             *)
(***************************************************************************)
EXTENDS Integers, Sequences, FiniteSets, TLC

VARIABLES
    nodes,            \* graph node arena: node id -> Item<T>
    edges,            \* graph edge arena, in insertion order: [source, target, weight]
    words,            \* dedup index HashMap<Item<T>, NodeId>
    overflow_checks,  \* build profile: "on" = u32 `+` panics on overflow, "off" = it
                      \* wraps, "either" = no overflow happened yet to tell
    panicked,         \* a mutating call panicked; the program is gone
    nops,             \* number of public mutating calls made so far
    lastOp,           \* the last public mutating call: [op, arg, ret]
    obs,              \* times Item y directly followed Item x inside one fed sequence
    fedOnly,          \* TRUE while the chain was built by feed calls only
    returned,         \* item -> node id the latest ensure_node(item) returned, 0 if none
    phase,            \* "build": no walker alive; "walk": a generation is running
    gen,              \* generate():      [cur, items, st, stop]
    iter,             \* generate_iter(): [cur, items, st, stop, sawEnd, skips]
    steps,            \* random draws handed out in the running generation
    earlier           \* results generate() returned before, kept by the caller

chainVars == <<nodes, edges, words>>
histVars == <<nops, lastOp, obs, fedOnly, returned>>
walkVars == <<phase, gen, iter, steps>>
vars == <<nodes, edges, words, overflow_checks, panicked, nops, lastOp, obs,
          fedOnly, returned, phase, gen, iter, steps, earlier>>

(***************************************************************************)
(* Bounds of the model.                                                    *)
(***************************************************************************)
MaxOps == 2      \* public mutating calls per behaviour
MaxLen == 2      \* length of a fed sequence
MaxSteps == MaxLen + 2   \* random-walk steps per generation

\* The item type T, two values.
T == {"a", "b"}

\* Width of an edge weight. The program's weight is a u32; the model keeps the
\* arithmetic and narrows the width.
WeightBits == 2
Modulus == 2 ^ WeightBits
MaxWeight == Modulus - 1

\* Feed calls that carry one edge past the maximum weight: a fed sequence
\* bumps one edge at most MaxLen - 1 times. A behaviour made of feed calls
\* alone may be this long.
FeedsToWrap == (Modulus + MaxLen - 2) \div (MaxLen - 1)
MaxFeeds == IF FeedsToWrap > MaxOps THEN FeedsToWrap ELSE MaxOps

(***************************************************************************)
(* Item<T>                                                                 *)
(***************************************************************************)
ItemStart == <<"Start">>
ItemEnd == <<"End">>
Data(x) == <<"Data", x>>
IsData(item) == Len(item) = 2 /\ item[1] = "Data"
Items == {ItemStart, ItemEnd} \cup {Data(x) : x \in T}

\* impl From<T> for Item<T>
From(value) == Data(value)

RECURSIVE SeqsUpTo(_)
SeqsUpTo(n) ==
    IF n = 0 THEN {<<>>}
    ELSE LET s == SeqsUpTo(n - 1)
         IN s \cup {Append(q, x) : q \in {p \in s : Len(p) = n - 1}, x \in T}

(***************************************************************************)
(* Chain::new                                                              *)
(***************************************************************************)
start == 1
end == 2

New == [nodes |-> <<ItemStart, ItemEnd>>,
        edges |-> <<>>,
        words |-> [k \in {} |-> 0]]

(***************************************************************************)
(* petgraph, as the chain uses it                                          *)
(***************************************************************************)
\* Graph::add_node: always a new node, its id is the arena position.
AddNode(ns, item) == Append(ns, item)

\* Graph::edges(a): the outgoing edges of a, most recently added first.
RECURSIVE OutgoingFrom(_, _, _)
OutgoingFrom(es, a, i) ==
    IF i = 0 THEN <<>>
    ELSE IF es[i].source = a
         THEN <<i>> \o OutgoingFrom(es, a, i - 1)
         ELSE OutgoingFrom(es, a, i - 1)

Edges(es, a) == OutgoingFrom(es, a, Len(es))

\* Graph::edges_connecting(a, b): the edges of a whose target is b.
EdgesConnecting(es, a, b) == SelectSeq(Edges(es, a), LAMBDA i : es[i].target = b)

\* Graph::update_edge(a, b, weight): set the weight of the edge a -> b, or add it.
UpdateEdge(es, a, b, weight) ==
    LET found == EdgesConnecting(es, a, b)
    IN IF found # <<>>
       THEN [es EXCEPT ![Head(found)].weight = weight]
       ELSE Append(es, [source |-> a, target |-> b, weight |-> weight])

(***************************************************************************)
(* Chain::bump_edge                                                        *)
(***************************************************************************)
\* bump_edge with source and target swapped: it counts on the edge b -> a.
BumpEdgeReversed(c, a, b) ==
    LET conn == EdgesConnecting(c.edges, b, a)
        sum == IF conn # <<>> THEN 1 + c.edges[Head(conn)].weight ELSE 1
    IN IF c.panicked THEN c
       ELSE IF sum > MaxWeight /\ c.checks = "on"
       THEN [c EXCEPT !.panicked = TRUE, !.overflowed = TRUE]
       ELSE [c EXCEPT !.edges = UpdateEdge(c.edges, b, a, sum % Modulus),
                      !.overflowed = @ \/ sum > MaxWeight]

\* `weight += edge.weight()` on u32: past the maximum it panics when the build
\* checks overflow (c.checks = "on") and wraps when it does not.
BumpEdge(c, a, b) ==
    LET conn == EdgesConnecting(c.edges, a, b)
        sum == IF conn # <<>> THEN 1 + c.edges[Head(conn)].weight ELSE 1
    IN IF c.panicked THEN c
       ELSE IF sum > MaxWeight /\ c.checks = "on"
       THEN [c EXCEPT !.panicked = TRUE, !.overflowed = TRUE]
       ELSE [c EXCEPT !.edges = UpdateEdge(c.edges, a, b, sum % Modulus),
                      !.overflowed = @ \/ sum > MaxWeight]

(***************************************************************************)
(* Chain::ensure_node                                                      *)
(***************************************************************************)
\* ensure_node without the lookup: every call adds a node.
EnsureNodeAlwaysAdds(c, item) ==
    LET node == Len(c.nodes) + 1
    IN [c |-> [c EXCEPT !.nodes = AddNode(c.nodes, From(item)),
                        !.words = (From(item) :> node) @@ c.words,
                        !.returned[item] = node],
        node |-> node]

\* ensure_node without `self.words.insert`: the new node is not indexed.
EnsureNodeNoIndex(c, item) ==
    IF Data(item) \in DOMAIN c.words
    THEN LET node == c.words[Data(item)]
         IN [c |-> [c EXCEPT !.returned[item] = node], node |-> node]
    ELSE LET node == Len(c.nodes) + 1
         IN [c |-> [c EXCEPT !.nodes = AddNode(c.nodes, From(item)),
                             !.returned[item] = node],
             node |-> node]

\* c.returned notes the id each call returns.
EnsureNode(c, item) ==
    IF Data(item) \in DOMAIN c.words
    THEN LET node == c.words[Data(item)]
         IN [c |-> [c EXCEPT !.returned[item] = node], node |-> node]
    ELSE LET node == Len(c.nodes) + 1
         IN [c |-> [c EXCEPT !.nodes = AddNode(c.nodes, From(item)),
                             !.words = (From(item) :> node) @@ c.words,
                             !.returned[item] = node],
             node |-> node]

(***************************************************************************)
(* Chain::feed                                                             *)
(***************************************************************************)
\* The while loop of feed; a panic in bump_edge leaves the loop.
RECURSIVE FeedLoop(_, _, _)
FeedLoop(c, prev, items) ==
    IF c.panicked \/ items = <<>>
    THEN [c |-> c, prev |-> prev]
    ELSE LET en == EnsureNode(c, Head(items))
         IN FeedLoop(BumpEdge(en.c, prev, en.node), en.node, Tail(items))

\* feed without `prev = node`: every item is linked from Start.
RECURSIVE FeedLoopPrevStuck(_, _, _)
FeedLoopPrevStuck(c, prev, items) ==
    IF c.panicked \/ items = <<>>
    THEN [c |-> c, prev |-> prev]
    ELSE LET en == EnsureNode(c, Head(items))
         IN FeedLoopPrevStuck(BumpEdge(en.c, start, en.node), en.node, Tail(items))

FeedPrevStuck(c, items) ==
    LET r == FeedLoopPrevStuck(c, start, items)
    IN IF ~r.c.panicked /\ r.prev # start
       THEN BumpEdge(r.c, r.prev, end)
       ELSE r.c

\* feed without `if prev != self.start`: the End edge is always bumped.
FeedAlwaysEnds(c, items) ==
    LET r == FeedLoop(c, start, items)
    IN IF ~r.c.panicked
       THEN BumpEdge(r.c, r.prev, end)
       ELSE r.c

Feed(c, items) ==
    LET r == FeedLoop(c, start, items)
    IN IF ~r.c.panicked /\ r.prev # start
       THEN BumpEdge(r.c, r.prev, end)
       ELSE r.c

(***************************************************************************)
(* RandomWalk::next                                                        *)
(***************************************************************************)
RECURSIVE SumWeights(_, _, _)
SumWeights(es, out, k) ==
    IF k = 0 THEN 0 ELSE es[out[k]].weight + SumWeights(es, out, k - 1)

\* Total weight of the outgoing edges `out` (edge ids, in Graph::edges order).
TotalWeight(es, out) == SumWeights(es, out, Len(out))

\* WeightedIndex::sample with the uniform draw r in [0, total): the number of
\* cumulative weights (the last one left out) that are <= r.
SampleIndex(es, out, r) ==
    1 + Cardinality({k \in 1 .. Len(out) - 1 : SumWeights(es, out, k) <= r})

\* The draws the randomness source can hand to a step taken at node cur.
Draws(es, cur) ==
    LET total == TotalWeight(es, Edges(es, cur))
    IN IF total = 0 THEN {0} ELSE 0 .. total - 1

\* next with the error of WeightedIndex::new replaced by a choice among the
\* edges that ignores the weights.
RandomWalkNextUniformFallback(es, current, r) ==
    LET out == Edges(es, current)
    IN IF Len(out) = 0
       THEN [tag |-> "None", current |-> current]
       ELSE IF TotalWeight(es, out) = 0
       THEN [tag |-> "Some", current |-> es[out[(r % Len(out)) + 1]].target]
       ELSE LET node == es[out[SampleIndex(es, out, r)]].target
            IN [tag |-> "Some", current |-> node]

\* next without `if edges.len() == 0`: WeightedIndex::new of no weights fails.
RandomWalkNextNoEmptyCheck(es, current, r) ==
    LET out == Edges(es, current)
    IN IF TotalWeight(es, out) = 0
       THEN [tag |-> "Panic", current |-> current]
       ELSE LET node == es[out[SampleIndex(es, out, r)]].target
            IN [tag |-> "Some", current |-> node]

\* One step of the walker at `current` with draw r. WeightedIndex::new fails
\* when all weights are zero, and `expect` turns that into a panic.
RandomWalkNext(es, current, r) ==
    LET out == Edges(es, current)
    IN IF Len(out) = 0
       THEN [tag |-> "None", current |-> current]
       ELSE IF TotalWeight(es, out) = 0
       THEN [tag |-> "Panic", current |-> current]
       ELSE LET node == es[out[SampleIndex(es, out, r)]].target
            IN [tag |-> "Some", current |-> node]

\* Chain::walker: RandomWalk::new(self.start)
Walker == start

(***************************************************************************)
(* Chain::generate: one turn of its while loop                             *)
(***************************************************************************)
\* generate with `self.walker()` inside the loop: every turn takes the first
\* step of a fresh walker at Start.
GenerateStepFreshWalker(ns, es, g, r) ==
    LET nx == RandomWalkNext(es, Walker, r)
    IN CASE nx.tag = "Panic" ->
              [g EXCEPT !.st = "panic", !.stop = "expect"]
         [] nx.tag = "None" ->
              [g EXCEPT !.st = "done", !.stop = "None"]
         [] nx.tag = "Some" /\ IsData(ns[nx.current]) ->
              [g EXCEPT !.items = Append(g.items, ns[nx.current][2])]
         [] OTHER ->
              [g EXCEPT !.st = "done", !.stop = ns[nx.current][1]]

GenerateStep(ns, es, g, r) ==
    LET nx == RandomWalkNext(es, g.cur, r)
    IN CASE nx.tag = "Panic" ->
              [g EXCEPT !.st = "panic", !.stop = "expect"]
         [] nx.tag = "None" ->
              [g EXCEPT !.st = "done", !.stop = "None"]
         [] nx.tag = "Some" /\ IsData(ns[nx.current]) ->
              [g EXCEPT !.cur = nx.current,
                        !.items = Append(g.items, ns[nx.current][2])]
         [] OTHER ->
              \* `else { break; }`: End and Start alike
              [g EXCEPT !.cur = nx.current, !.st = "done",
                        !.stop = ns[nx.current][1]]

(***************************************************************************)
(* Chain::generate_iter: one item of the walker through filter_map         *)
(***************************************************************************)
GenerateIterStep(ns, es, it, r) ==
    LET nx == RandomWalkNext(es, it.cur, r)
    IN CASE nx.tag = "Panic" ->
              [it EXCEPT !.st = "panic", !.stop = "expect"]
         [] nx.tag = "None" ->
              [it EXCEPT !.st = "done", !.stop = "None"]
         [] nx.tag = "Some" /\ IsData(ns[nx.current]) ->
              [it EXCEPT !.cur = nx.current,
                         !.items = Append(it.items, ns[nx.current][2]),
                         !.skips = 0]
         [] nx.tag = "Some" /\ ns[nx.current] = ItemEnd ->
              \* filter_map drops the None of the closure and goes on:
              \* the pull that is running takes one more walker item
              [it EXCEPT !.cur = nx.current, !.sawEnd = TRUE,
                         !.skips = @ + 1]
         [] OTHER ->
              [it EXCEPT !.cur = nx.current, !.st = "panic",
                         !.stop = "unreachable"]

(***************************************************************************)
(* Bookkeeping of what was fed (history, no part of the Chain)             *)
(***************************************************************************)
\* Start, the items, End: the transitions one feed call observes.
Observed(items) ==
    IF items = <<>> THEN <<>>
    ELSE <<ItemStart>> \o [i \in 1 .. Len(items) |-> Data(items[i])] \o <<ItemEnd>>

Follows(path, x, y) ==
    Cardinality({i \in 1 .. Len(path) - 1 : path[i] = x /\ path[i + 1] = y})

ObsAfter(o, items) ==
    [p \in Items \X Items |-> o[p] + Follows(Observed(items), p[1], p[2])]

\* The chain of the current state, run by a build that checks overflow or not.
TheChain(build) ==
    [nodes |-> nodes, edges |-> edges, words |-> words,
     panicked |-> panicked, overflowed |-> FALSE, checks |-> build,
     returned |-> returned]

\* The builds the behaviour so far can come from.
Builds == IF overflow_checks = "either" THEN {"on", "off"} ELSE {overflow_checks}

Idle == [cur |-> start, items |-> <<>>, st |-> "idle", stop |-> ""]
IdleIter == [cur |-> start, items |-> <<>>, st |-> "idle", stop |-> "",
             sawEnd |-> FALSE, skips |-> 0]

(***************************************************************************)
(* State machine                                                           *)
(***************************************************************************)
Init ==
    /\ nodes = New.nodes
    /\ edges = New.edges
    /\ words = New.words
    /\ panicked = FALSE
    /\ overflow_checks = "either"
    /\ nops = 0
    /\ lastOp = [op |-> "new", arg |-> <<>>, ret |-> 0]
    /\ obs = [p \in Items \X Items |-> 0]
    /\ fedOnly = TRUE
    /\ returned = [x \in T |-> 0]
    /\ phase = "build"
    /\ gen = Idle
    /\ iter = IdleIter
    /\ steps = 0
    /\ earlier = {}

\* A &mut self call needs that no walker borrows the chain.
CanMutate == phase = "build" /\ ~panicked /\ nops < MaxOps

CanFeed == phase = "build" /\ ~panicked /\ nops < (IF fedOnly THEN MaxFeeds ELSE MaxOps)

Install(c) ==
    /\ nodes' = c.nodes
    /\ edges' = c.edges
    /\ words' = c.words
    /\ panicked' = c.panicked
    /\ overflow_checks' = IF c.overflowed THEN c.checks ELSE overflow_checks
    /\ returned' = c.returned
    /\ nops' = nops + 1
    /\ UNCHANGED <<walkVars, earlier>>

\* chain.feed(items)
DoFeed(items) ==
    /\ CanFeed
    /\ \E build \in Builds : Install(Feed(TheChain(build), items))
    /\ lastOp' = [op |-> "feed", arg |-> items, ret |-> 0]
    /\ obs' = ObsAfter(obs, items)
    /\ UNCHANGED fedOnly

\* chain.ensure_node(item), called by a collaborator
DoEnsureNode(item) ==
    /\ CanMutate
    /\ LET en == EnsureNode(TheChain(overflow_checks), item)
       IN /\ Install(en.c)
          /\ lastOp' = [op |-> "ensure_node", arg |-> item, ret |-> en.node]
    /\ fedOnly' = FALSE
    /\ UNCHANGED obs

\* chain.bump_edge(a, b), called by a collaborator with two node ids it holds
DoBumpEdge(a, b) ==
    /\ CanMutate
    /\ \E build \in Builds : Install(BumpEdge(TheChain(build), a, b))
    /\ lastOp' = [op |-> "bump_edge", arg |-> <<a, b>>, ret |-> 0]
    /\ fedOnly' = FALSE
    /\ UNCHANGED obs

\* chain.generate() and chain.generate_iter() are called: each gets its own
\* walker at Start. The two run side by side on one stream of draws.
StartWalk ==
    /\ phase = "build"
    /\ ~panicked
    /\ phase' = "walk"
    /\ gen' = [Idle EXCEPT !.cur = Walker, !.st = "run"]
    /\ iter' = [IdleIter EXCEPT !.cur = Walker, !.st = "run"]
    /\ steps' = 0
    /\ UNCHANGED <<chainVars, overflow_checks, panicked, histVars, earlier>>

\* A walk step that writes to the graph: it counts the visit on the first
\* outgoing edge of the node it leaves.
WalkStepCounting ==
    /\ phase = "walk"
    /\ steps < MaxSteps
    /\ iter.st = "run" \/ gen.st = "run"
    /\ LET lead == IF iter.st = "run" THEN iter.cur ELSE gen.cur
           out == Edges(edges, lead)
       IN /\ \E r \in Draws(edges, lead) :
               /\ gen' = IF gen.st = "run"
                         THEN GenerateStep(nodes, edges, gen, r) ELSE gen
               /\ iter' = IF iter.st = "run"
                          THEN GenerateIterStep(nodes, edges, iter, r) ELSE iter
          /\ edges' = IF out = <<>> THEN edges
                      ELSE [edges EXCEPT ![Head(out)].weight = (@ + 1) % Modulus]
    /\ steps' = steps + 1
    /\ UNCHANGED <<nodes, words, overflow_checks, panicked, histVars, phase,
                   earlier>>

\* The randomness source hands out one draw; every walker still running
\* takes its next step with it.
WalkStep ==
    /\ phase = "walk"
    /\ steps < MaxSteps
    /\ iter.st = "run" \/ gen.st = "run"
    /\ LET lead == IF iter.st = "run" THEN iter.cur ELSE gen.cur
       IN \E r \in Draws(edges, lead) :
            /\ gen' = IF gen.st = "run"
                      THEN GenerateStep(nodes, edges, gen, r) ELSE gen
            /\ iter' = IF iter.st = "run"
                       THEN GenerateIterStep(nodes, edges, iter, r) ELSE iter
    /\ steps' = steps + 1
    /\ UNCHANGED <<chainVars, overflow_checks, panicked, histVars, phase,
                   earlier>>

\* Both results are in (or the caller stops pulling): the borrows end.
EndWalk ==
    /\ phase = "walk"
    /\ gen.st # "panic" /\ iter.st # "panic"
    /\ (gen.st = "done" /\ iter.st = "done") \/ steps = MaxSteps
    /\ phase' = "build"
    /\ gen' = Idle
    /\ iter' = IdleIter
    /\ steps' = 0
    /\ UNCHANGED <<chainVars, overflow_checks, panicked, histVars, earlier>>

\* generate() returned and the caller keeps the first result to compare
\* later results with it.
EndWalkKeep ==
    /\ phase = "walk"
    /\ gen.st = "done"
    /\ iter.st # "panic"
    /\ iter.st = "done" \/ steps = MaxSteps
    /\ earlier' = IF earlier = {} THEN {gen.items} ELSE earlier
    /\ phase' = "build"
    /\ gen' = Idle
    /\ iter' = IdleIter
    /\ steps' = 0
    /\ UNCHANGED <<chainVars, overflow_checks, panicked, histVars>>

Next ==
    \/ \E items \in SeqsUpTo(MaxLen) : DoFeed(items)
    \/ \E item \in T : DoEnsureNode(item)
    \/ \E a \in 1 .. Len(nodes), b \in 1 .. Len(nodes) : DoBumpEdge(a, b)
    \/ StartWalk
    \/ WalkStep
    \/ EndWalk

Spec == Init /\ [][Next]_vars

\* The chain is fed, then generate() is called again and again on the graph
\* as it stands, and the first result is kept.
NextRepeat ==
    \/ \E items \in SeqsUpTo(MaxLen) : earlier = {} /\ DoFeed(items)
    \/ StartWalk
    \/ WalkStep
    \/ EndWalkKeep

SpecRepeat == Init /\ [][NextRepeat]_vars

\* A collaborator alone drives the chain: it makes nodes with ensure_node and
\* calls bump_edge on the ids it holds, often enough to take one weight
\* through every value it can hold, and walks the graph it has built.
MaxBumps == Modulus

DoBumpEdgeAgain(a, b) ==
    /\ phase = "build"
    /\ ~panicked
    /\ nops < MaxBumps
    /\ \E build \in Builds : Install(BumpEdge(TheChain(build), a, b))
    /\ lastOp' = [op |-> "bump_edge", arg |-> <<a, b>>, ret |-> 0]
    /\ fedOnly' = FALSE
    /\ UNCHANGED obs

NextBump ==
    \/ \E item \in T : DoEnsureNode(item)
    \/ \E a \in 1 .. Len(nodes), b \in 1 .. Len(nodes) : DoBumpEdgeAgain(a, b)
    \/ StartWalk
    \/ WalkStep
    \/ EndWalk

SpecBump == Init /\ [][NextBump]_vars

TypeOK ==
    /\ \A i \in 1 .. Len(nodes) : nodes[i] \in Items
    /\ \A i \in 1 .. Len(edges) :
         /\ edges[i].source \in 1 .. Len(nodes)
         /\ edges[i].target \in 1 .. Len(nodes)
         /\ edges[i].weight \in 0 .. MaxWeight
    /\ phase \in {"build", "walk"}
    /\ gen.st = "run" => iter.st = "run" /\ iter.cur = gen.cur

(***************************************************************************)
(* Helpers of the properties                                               *)
(***************************************************************************)
\* The node holding an Item: the two sentinels are fields of the Chain, a
\* Data item is found through the index. 0 when the item has no node.
NodeOf(item) ==
    IF item = ItemStart THEN start
    ELSE IF item = ItemEnd THEN end
    ELSE IF item \in DOMAIN words THEN words[item] ELSE 0

HasEdge(a, b) == EdgesConnecting(edges, a, b) # <<>>
Weight(a, b) == edges[Head(EdgesConnecting(edges, a, b))].weight

Distinct(q) == \A i, j \in 1 .. Len(q) : q[i] = q[j] => i = j

\* The step just taken was the public call `op`.
Called(op) == nops' = nops + 1 /\ lastOp'.op = op

(***************************************************************************)
(* C1: after feed calls only, the edge node(x) -> node(y) exists exactly   *)
(* when y was seen directly after x inside one fed sequence (Start before  *)
(* the first item, End after the last), and then its weight is the number  *)
(* of times that was seen: nothing links one fed sequence to the next.     *)
(***************************************************************************)
C1_WeightIsObservedCount ==
    (fedOnly /\ ~panicked) =>
        \A x \in Items, y \in Items :
            LET a == NodeOf(x)
                b == NodeOf(y)
                has == a # 0 /\ b # 0 /\ HasEdge(a, b)
            IN /\ has <=> obs[<<x, y>>] > 0
               /\ has => Weight(a, b) = obs[<<x, y>>]

(***************************************************************************)
(* C2: whatever calls come between, a later ensure_node(x) returns the id  *)
(* an earlier ensure_node(x) returned, the graph holds exactly one Data    *)
(* node with payload x, and a call that finds x present changes neither    *)
(* nodes, edges, weights nor the index.                                    *)
(***************************************************************************)
C2_OneNode ==
    \A x \in T :
        returned[x] # 0 =>
            Cardinality({i \in 1 .. Len(nodes) : nodes[i] = Data(x)}) = 1

C2_SameId ==
    \A x \in T :
        returned[x] # 0 =>
            /\ returned'[x] = returned[x]
            /\ (Called("ensure_node") /\ lastOp'.arg = x) =>
                   /\ lastOp'.ret = returned[x]
                   /\ UNCHANGED <<nodes, edges, words>>

C2_EnsureNodeIdempotent == []C2_OneNode /\ [][C2_SameId]_vars

\* ensure_node(x) was called on a chain a feed call had put x into.
C2_Witness ==
    /\ nops = 2
    /\ lastOp.op = "ensure_node"
    /\ lastOp.ret = 3
    /\ Len(nodes) = 3
    /\ \E i \in 1 .. Len(edges) : edges[i].source = 3

(***************************************************************************)
(* C3: on a fresh chain fed one sequence of pairwise-distinct items,       *)
(* generate returns exactly that sequence whatever the draws; for one item *)
(* the graph holds Start -> node and node -> End, weight 1 each, no more.  *)
(***************************************************************************)
IsPrefix(p, q) == Len(p) <= Len(q) /\ \A i \in 1 .. Len(p) : p[i] = q[i]

C3_SingleFeedRoundTrip ==
    (nops = 1 /\ lastOp.op = "feed" /\ Distinct(lastOp.arg)) =>
        /\ gen.st # "panic"
        /\ IsPrefix(gen.items, lastOp.arg)
        /\ gen.st = "done" => gen.items = lastOp.arg
        /\ Len(lastOp.arg) = 1 =>
               edges = << [source |-> start, target |-> 3, weight |-> 1],
                          [source |-> 3, target |-> end, weight |-> 1] >>

\* generate returned after one feed of MaxLen distinct items.
C3_Witness ==
    /\ nops = 1
    /\ lastOp.op = "feed"
    /\ Distinct(lastOp.arg)
    /\ Len(lastOp.arg) = MaxLen
    /\ gen.st = "done"

(***************************************************************************)
(* C4: on the same draws generate_iter yields exactly the items generate   *)
(* returns: once generate has returned (the walk reached End or a          *)
(* dead-end) generate_iter has yielded those items and yields no more.     *)
(***************************************************************************)
C4_IterYieldsWhatGenerateReturns ==
    gen.st = "done" => iter.items = gen.items

(***************************************************************************)
(* C5: a walk step whose target is the Start node aborts the generation    *)
(* with an internal error, in generate and in generate_iter alike; the     *)
(* generation never just ends there.                                       *)
(***************************************************************************)
C5_StartAsTargetAborts ==
    /\ gen.stop = "Start" => gen.st = "panic"
    /\ iter.stop = "unreachable" => iter.st = "panic"
    /\ iter.stop = "unreachable" => gen.st = "panic"

(***************************************************************************)
(* C6: the index is a bijection between the Data payloads of the graph and *)
(* their node ids: no two nodes hold equal Data payloads, every Data node  *)
(* has an index entry that maps to it, every entry names the node that     *)
(* holds its key, and Start and End are never keys.                        *)
(***************************************************************************)
C6_IndexIsBijection ==
    /\ \A i, j \in 1 .. Len(nodes) :
           (IsData(nodes[i]) /\ nodes[i] = nodes[j]) => i = j
    /\ \A i \in 1 .. Len(nodes) :
           IsData(nodes[i]) => (nodes[i] \in DOMAIN words /\ words[nodes[i]] = i)
    /\ \A k \in DOMAIN words :
           IsData(k) /\ words[k] \in 1 .. Len(nodes) /\ nodes[words[k]] = k
    /\ ItemStart \notin DOMAIN words
    /\ ItemEnd \notin DOMAIN words

\* Both items are in the graph, put there by MaxOps or more calls.
C6_Witness ==
    /\ Cardinality(DOMAIN words) = Cardinality(T)
    /\ nops >= MaxOps
    /\ edges # <<>>

(***************************************************************************)
(* C7: there is at most one edge for each ordered pair of nodes and every  *)
(* edge has weight >= 1, so the walker's WeightedIndex::new over a         *)
(* non-empty edge list never fails.                                        *)
(***************************************************************************)
C7_OneEdgePerPairWeightPositive ==
    /\ \A a, b \in 1 .. Len(nodes) : Len(EdgesConnecting(edges, a, b)) <= 1
    /\ \A i \in 1 .. Len(edges) : edges[i].weight >= 1
    /\ gen.stop # "expect" /\ iter.stop # "expect"

(***************************************************************************)
(* C8: feeding the empty sequence changes neither the nodes, the edges,    *)
(* the weights nor the index; no Start -> End edge appears.                *)
(***************************************************************************)
C8_EmptyFeed ==
    (Called("feed") /\ lastOp'.arg = <<>>) =>
        /\ UNCHANGED <<nodes, edges, words>>
        /\ HasEdge(start, end)' = HasEdge(start, end)

C8_EmptyFeedIsNoOp == [][C8_EmptyFeed]_vars

\* The empty sequence was fed to a chain that already held edges.
C8_Witness ==
    /\ nops >= 2
    /\ lastOp.op = "feed"
    /\ lastOp.arg = <<>>
    /\ edges # <<>>

(***************************************************************************)
(* C9: when Start has no outgoing edge, generate returns the empty         *)
(* sequence and generate_iter yields nothing, without error; and a walk    *)
(* step from any node without outgoing edges is "no move": the walk ends   *)
(* there, the current node and the items stay as they are.                 *)
(***************************************************************************)
C9_EmptyStart ==
    (phase = "walk" /\ Edges(edges, start) = <<>>) =>
        /\ gen.items = <<>> /\ iter.items = <<>>
        /\ gen.st # "panic" /\ iter.st # "panic"
        /\ steps >= 1 => (gen.st = "done" /\ iter.st = "done")

C9_DeadEndStep ==
    (phase = "walk" /\ steps' = steps + 1) =>
        /\ (gen.st = "run" /\ Edges(edges, gen.cur) = <<>>) =>
               gen' = [gen EXCEPT !.st = "done", !.stop = "None"]
        /\ (iter.st = "run" /\ Edges(edges, iter.cur) = <<>>) =>
               iter' = [iter EXCEPT !.st = "done", !.stop = "None"]

C9_NoEdgesNoMove == []C9_EmptyStart /\ [][C9_DeadEndStep]_vars

\* Only ensure_node was called; both generations stopped at once, empty.
C9_Witness ==
    /\ phase = "walk"
    /\ steps = 1
    /\ Len(nodes) > 2
    /\ Edges(edges, start) = <<>>
    /\ gen.st = "done" /\ gen.stop = "None"
    /\ iter.st = "done" /\ iter.stop = "None"

(***************************************************************************)
(* C10: generation never writes to the chain: every step that is not a     *)
(* call of feed, ensure_node or bump_edge, so every step of generate and   *)
(* generate_iter whatever the draw, leaves the nodes, the edges, the       *)
(* weights and the index as they are.                                      *)
(***************************************************************************)
C10_ReadOnly ==
    (phase = "walk" \/ phase' = "walk") => UNCHANGED <<nodes, edges, words>>

C10_GenerationIsReadOnly == [][C10_ReadOnly]_vars

\* A generation that made a data node its current node, between two feeds.
C10_Witness ==
    /\ phase = "walk"
    /\ steps >= 2
    /\ gen.items # <<>>
    /\ nops >= 1
    /\ fedOnly

(***************************************************************************)
(* C11: on a chain built by feed calls only, no pull of generate_iter      *)
(* panics, and a pull returns after a bounded number of walker items: it   *)
(* drops at most one sentinel (End) before the walk ends, and yields at    *)
(* most one item per walker item.                                          *)
(***************************************************************************)
C11_PullsReturnWithoutPanic ==
    fedOnly =>
        /\ iter.st # "panic"
        /\ iter.skips <= 1
        /\ Len(iter.items) <= steps

(***************************************************************************)
(* C12: on a chain built by feed calls only, every Data node has an        *)
(* outgoing edge and End can be reached from it along edges the walker can *)
(* take (weight >= 1); so a walk that chooses fairly among those edges     *)
(* ends, and generate ends at End, not at a dead-end Data node, and        *)
(* without panic.                                                          *)
(***************************************************************************)
\* Targets of the edges of n that a draw can select.
Selectable(n) ==
    {edges[i].target : i \in {j \in 1 .. Len(edges) :
                                 edges[j].source = n /\ edges[j].weight >= 1}}

RECURSIVE Reach(_)
Reach(S) ==
    LET more == S \cup UNION {Selectable(n) : n \in S}
    IN IF more = S THEN S ELSE Reach(more)

CanReachEnd(n) == end \in Reach({n})

C12_WalksEndAtEnd ==
    fedOnly =>
        /\ \A n \in 1 .. Len(nodes) :
               IsData(nodes[n]) => (Edges(edges, n) # <<>> /\ CanReachEnd(n))
        /\ gen.st # "panic"
        /\ gen.st = "run" => (Edges(edges, gen.cur) = <<>> \/ CanReachEnd(gen.cur))
        /\ gen.st = "done" => (gen.stop = "End" \/ gen.cur = start)

(***************************************************************************)
(* C13: with the randomness source fixed by the caller and the graph       *)
(* fixed, independent generate() calls return identical sequences: a       *)
(* result of generate() equals every result it returned before on the same *)
(* graph.                                                                  *)
(***************************************************************************)
C13_RepeatedGenerateAgrees ==
    gen.st = "done" => \A e \in earlier : gen.items = e

(***************************************************************************)
(* C14: a walk step from a node with outgoing edges selects one of them in *)
(* proportion to its weight: of the draws r in [0, W), W the sum of the    *)
(* outgoing weights, exactly weight(e) select edge e; every outgoing edge  *)
(* is selected by some draw; the step returns the target of the selected   *)
(* edge.                                                                   *)
(***************************************************************************)
\* The draws in [0, W) that select the k-th outgoing edge of n.
DrawsSelecting(n, k) ==
    LET out == Edges(edges, n)
    IN {r \in 0 .. TotalWeight(edges, out) - 1 : SampleIndex(edges, out, r) = k}

C14_ExactShare ==
    \A n \in 1 .. Len(nodes) :
        LET out == Edges(edges, n)
        IN /\ \A k \in 1 .. Len(out) :
                  Cardinality(DrawsSelecting(n, k)) = edges[out[k]].weight
           /\ \A r \in 0 .. TotalWeight(edges, out) - 1 :
                  RandomWalkNext(edges, n, r) =
                      [tag |-> "Some",
                       current |-> edges[out[SampleIndex(edges, out, r)]].target]

C14_StepIsWeightProportional ==
    /\ C14_ExactShare
    /\ \A n \in 1 .. Len(nodes) :
           \A k \in 1 .. Len(Edges(edges, n)) : DrawsSelecting(n, k) # {}

(***************************************************************************)
(* C15: over every sequence of bump_edge and feed calls the weight of each *)
(* edge never decreases, and each observed transition raises it by exactly *)
(* 1 from its previous value, at every value the weight can hold, the      *)
(* maximum included.                                                       *)
(***************************************************************************)
\* The weight of a -> b in the edge list es, 0 while the edge is absent.
WeightIn(es, a, b) ==
    LET conn == EdgesConnecting(es, a, b)
    IN IF conn = <<>> THEN 0 ELSE es[Head(conn)].weight

\* How often the call just made observed the transition a -> b.
ObservedNow(a, b) ==
    IF Called("bump_edge")
    THEN (IF lastOp'.arg = <<a, b>> THEN 1 ELSE 0)
    ELSE IF Called("feed")
    THEN Follows(Observed(lastOp'.arg), nodes'[a], nodes'[b])
    ELSE 0

C15_Step ==
    \A a \in 1 .. Len(nodes'), b \in 1 .. Len(nodes') :
        /\ WeightIn(edges', a, b) >= WeightIn(edges, a, b)
        /\ WeightIn(edges', a, b) = WeightIn(edges, a, b) + ObservedNow(a, b)

C15_WeightGrowsByOne == [][C15_Step]_vars

(***************************************************************************)
(* C16: bump_edge(a, b) on two existing nodes always succeeds and touches  *)
(* only the edge a -> b: it creates the edge with weight 1 when absent and *)
(* adds 1 to its weight otherwise; the nodes, the index, the reverse edge  *)
(* b -> a and every other edge and weight stay as they were, also when     *)
(* a = b.                                                                  *)
(***************************************************************************)
\* The ordered pairs of nodes joined by an edge of the list es.
Joined(es) == {<<es[i].source, es[i].target>> : i \in 1 .. Len(es)}

C16_Frame ==
    Called("bump_edge") =>
        LET a == lastOp'.arg[1]
            b == lastOp'.arg[2]
        IN /\ UNCHANGED <<nodes, words>>
           /\ Joined(edges') \subseteq Joined(edges) \cup {<<a, b>>}
           /\ \A p \in Joined(edges) \ {<<a, b>>} :
                  /\ p \in Joined(edges')
                  /\ WeightIn(edges', p[1], p[2]) = WeightIn(edges, p[1], p[2])
           /\ Len(edges') = Cardinality(Joined(edges'))

C16_Effect ==
    Called("bump_edge") =>
        LET a == lastOp'.arg[1]
            b == lastOp'.arg[2]
        IN /\ ~panicked'
           /\ <<a, b>> \in Joined(edges')
           /\ WeightIn(edges', a, b) =
                  IF <<a, b>> \in Joined(edges) THEN WeightIn(edges, a, b) + 1 ELSE 1

C16_BumpEdgeTouchesOneEdge == [][C16_Frame /\ C16_Effect]_vars

(***************************************************************************)
(* C17: after feed calls only, no edge leads into Start and no edge leaves *)
(* End, so no walk step returns Start and generate_iter never executes its *)
(* unreachable!() branch.                                                  *)
(***************************************************************************)
C17_StartNeverRevisited ==
    fedOnly =>
        /\ \A i \in 1 .. Len(edges) :
               edges[i].target # start /\ edges[i].source # end
        /\ \A n \in 1 .. Len(nodes) :
               \A r \in Draws(edges, n) :
                   RandomWalkNext(edges, n, r).tag = "Some" =>
                       RandomWalkNext(edges, n, r).current # start
        /\ gen.stop # "Start"
        /\ iter.stop # "unreachable"
        /\ steps > 0 /\ gen.st = "run" => gen.cur # start
        /\ steps > 0 /\ iter.st = "run" => iter.cur # start

\* Both walks over a fed chain of two Data nodes have come to their end.
C17_Witness ==
    /\ fedOnly
    /\ Len(nodes) = 4
    /\ gen.st = "done" /\ gen.stop = "End" /\ Len(gen.items) >= 2
    /\ iter.st = "done" /\ iter.sawEnd

(***************************************************************************)
(* C18: what generate returns is a path of the graph: the node of its      *)
(* first item is the target of an edge out of Start and each two           *)
(* consecutive items are joined by an edge of weight >= 1. On a chain      *)
(* built by feed calls only, the first item began some fed sequence, each  *)
(* two consecutive items were adjacent in some fed sequence, and the last  *)
(* item ended some fed sequence.                                           *)
(***************************************************************************)
C18_GeneratedIsPath ==
    LET q == gen.items
        n(i) == NodeOf(Data(q[i]))
    IN /\ q # <<>> => (n(1) # 0 /\ HasEdge(start, n(1)))
       /\ \A i \in 1 .. Len(q) - 1 :
              /\ n(i + 1) # 0
              /\ HasEdge(n(i), n(i + 1))
              /\ Weight(n(i), n(i + 1)) >= 1
       /\ fedOnly =>
              /\ q # <<>> => obs[<<ItemStart, Data(q[1])>>] > 0
              /\ \A i \in 1 .. Len(q) - 1 : obs[<<Data(q[i]), Data(q[i + 1])>>] > 0
              /\ (gen.st = "done" /\ q # <<>>) =>
                     obs[<<Data(q[Len(q)]), ItemEnd>>] > 0

\* generate returned three items from a chain fed sequences of at most
\* MaxLen items: a path no single fed sequence holds.
C18_Witness ==
    /\ fedOnly
    /\ gen.st = "done"
    /\ gen.stop = "End"
    /\ Len(gen.items) = MaxLen + 1

(***************************************************************************)
(* C19: a walk step from a node that has outgoing edges, all of weight 0,  *)
(* fails with a panic: it does not return 'no move' as from a node without *)
(* edges, it does not choose among the edges, and the walker stays at its  *)
(* current node.                                                           *)
(***************************************************************************)
\* Node n has outgoing edges and their weights are all zero.
AllWeightsZero(n) ==
    Edges(edges, n) # <<>> /\ TotalWeight(edges, Edges(edges, n)) = 0

C19_Step ==
    (phase = "walk" /\ steps' = steps + 1) =>
        /\ (gen.st = "run" /\ AllWeightsZero(gen.cur)) =>
               gen' = [gen EXCEPT !.st = "panic", !.stop = "expect"]
        /\ (iter.st = "run" /\ AllWeightsZero(iter.cur)) =>
               iter' = [iter EXCEPT !.st = "panic", !.stop = "expect"]

C19_ZeroWeightsPanic == [][C19_Step]_vars

\* A walker has taken a step at a node whose only weights are zero.
C19_Witness ==
    /\ phase = "walk"
    /\ steps > 0
    /\ gen.st = "panic"
    /\ AllWeightsZero(gen.cur)
    /\ iter.st = "panic"
    /\ AllWeightsZero(iter.cur)

====
